---- MODULE Spec2Model ----
(***************************************************************************)
(* AutoReply: the conversation text extractor.                             *)
(*                                                                         *)
(* Three implementations live in the repository and are modelled side by   *)
(* side, selected by impl:                                                 *)
(*   "macos"   platform_utils/base.py + platform_utils/macos_support.py    *)
(*   "windows" platform_utils/base.py + platform_utils/windows_support.py  *)
(*   "legacy"  text_extractor.py (the stand-alone macOS extractor)         *)
(*                                                                         *)
(* A Python str is a sequence of one-character strings, so that strip,     *)
(* lower, split and join are computed and not assumed.                     *)
(***************************************************************************)
EXTENDS Integers, Sequences, FiniteSets, TLC

\* ---------------------------------------------------------------- bounds

\* Children per node in the sibling trees handed to the walkers.
MaxChildren == 2
\* Deepest chain of nested nodes handed to the walkers (root is depth 0).
MaxChainDepth == 45
\* extract_conversation calls in one behaviour.
MaxCalls == 2

\* ------------------------------------------------------ program constants

\* macos_support.py _MAX_DEPTH, text_extractor.py _MAX_DEPTH.
MAX_DEPTH == 40
\* windows_support.py: self._walk_tree(window, lines, seen, depth=0, max_depth=40)
WIN_MAX_DEPTH == 40
\* base.py: for i in range(5); text_extractor.py: scroll_count=5
SCROLL_COUNT == 5
\* base.py: self.scroll_up(amount=5), pyautogui.scroll(-5)
SCROLL_AMOUNT == 5

\* ---------------------------------------------------------------- strings

NL == "\n"
\* The characters str.strip() removes.
WHITESPACE == {" ", "\t", "\n", "\r"}

UPPER ==
  <<
    "A", "B", "C", "D", "E", "F", "G", "H", "I", "J", "K", "L", "M", "N", "O", "P", "Q", "R",
    "S", "T", "U", "V", "W", "X", "Y", "Z"
  >>
LOWER ==
  <<
    "a", "b", "c", "d", "e", "f", "g", "h", "i", "j", "k", "l", "m", "n", "o", "p", "q", "r",
    "s", "t", "u", "v", "w", "x", "y", "z"
  >>

LowerChar(c) ==
  IF \E k \in 1..Len(UPPER) : UPPER[k] = c
  THEN LOWER[CHOOSE k \in 1..Len(UPPER) : UPPER[k] = c]
  ELSE c

\* str.lower()
StrLower(s) == IF s = <<>> THEN <<>> ELSE [k \in 1..Len(s) |-> LowerChar(s[k])]

SetMin(S) == CHOOSE x \in S : \A y \in S : x <= y
SetMax(S) == CHOOSE x \in S : \A y \in S : x >= y

\* str.strip()
StrStrip(s) ==
  LET solid == {k \in 1..Len(s) : s[k] \notin WHITESPACE}
  IN  IF solid = {} THEN <<>> ELSE SubSeq(s, SetMin(solid), SetMax(solid))

\* sep.join(parts)
RECURSIVE StrJoin(_, _)
StrJoin(sep, parts) ==
  IF parts = <<>> THEN <<>>
  ELSE IF Len(parts) = 1 THEN parts[1]
  ELSE parts[1] \o sep \o StrJoin(sep, Tail(parts))

\* text.split("\n"): "" gives [""], "a\n" gives ["a", ""].
RECURSIVE StrSplitLines(_)
StrSplitLines(s) ==
  LET breaks == {k \in 1..Len(s) : s[k] = NL}
  IN  IF breaks = {} THEN <<s>>
      ELSE LET b == SetMin(breaks)
           IN  <<SubSeq(s, 1, b - 1)>> \o StrSplitLines(SubSeq(s, b + 1, Len(s)))

Range(f) == {f[k] : k \in DOMAIN f}

\* ------------------------------------------------------------- deny-lists

MAC_UI_NOISE ==
  {
    <<"c", "l", "o", "s", "e">>, <<"m", "i", "n", "i", "m", "i", "z", "e">>,
    <<"z", "o", "o", "m">>, <<"b", "a", "c", "k">>, <<"f", "o", "r", "w", "a", "r", "d">>,
    <<"s", "e", "n", "d">>, <<"a", "t", "t", "a", "c", "h">>, <<"e", "m", "o", "j", "i">>,
    <<"s", "e", "a", "r", "c", "h">>, <<"m", "e", "n", "u">>, <<"f", "i", "l", "e">>,
    <<"e", "d", "i", "t">>, <<"v", "i", "e", "w">>, <<"w", "i", "n", "d", "o", "w">>,
    <<"h", "e", "l", "p">>, <<"n", "e", "w">>, <<"o", "p", "e", "n">>, <<"s", "a", "v", "e">>,
    <<"c", "u", "t">>, <<"c", "o", "p", "y">>, <<"p", "a", "s", "t", "e">>,
    <<"u", "n", "d", "o">>, <<"r", "e", "d", "o">>,
    <<"s", "e", "l", "e", "c", "t", " ", "a", "l", "l">>, <<"f", "i", "n", "d">>, <<"U+00D7">>,
    <<".", ".", ".">>, <<"U+22EE">>
  }

WIN_UI_NOISE ==
  {
    <<"c", "l", "o", "s", "e">>, <<"m", "i", "n", "i", "m", "i", "z", "e">>,
    <<"m", "a", "x", "i", "m", "i", "z", "e">>, <<"r", "e", "s", "t", "o", "r", "e">>,
    <<"b", "a", "c", "k">>, <<"f", "o", "r", "w", "a", "r", "d">>, <<"s", "e", "n", "d">>,
    <<"a", "t", "t", "a", "c", "h">>, <<"e", "m", "o", "j", "i">>,
    <<"s", "e", "a", "r", "c", "h">>, <<"m", "e", "n", "u">>, <<"f", "i", "l", "e">>,
    <<"e", "d", "i", "t">>, <<"v", "i", "e", "w">>, <<"w", "i", "n", "d", "o", "w">>,
    <<"h", "e", "l", "p">>, <<"n", "e", "w">>, <<"o", "p", "e", "n">>, <<"s", "a", "v", "e">>,
    <<"c", "u", "t">>, <<"c", "o", "p", "y">>, <<"p", "a", "s", "t", "e">>,
    <<"u", "n", "d", "o">>, <<"r", "e", "d", "o">>,
    <<"s", "e", "l", "e", "c", "t", " ", "a", "l", "l">>, <<"f", "i", "n", "d">>, <<"U+00D7">>,
    <<".", ".", ".">>, <<"U+22EE">>
  }

\* text_extractor.py format_extracted_text: ui_noise (the macOS list again).
LEGACY_UI_NOISE == MAC_UI_NOISE

\* ------------------------------------------------------- strings on screen

S_Empty == <<>>
S_Aa == <<"A", "a">>
S_Bb == <<"B", "b">>
S_Cc == <<"C", "c">>
S_X == <<"x">>
S_PadX == <<" ", "x">>
S_Blank == <<" ", " ">>
S_Send == <<"S", "e", "n", "d">>
S_PadSEND == <<" ", "S", "E", "N", "D", " ">>
S_Please ==
  <<
    "P", "l", "e", "a", "s", "e", " ", "s", "e", "n", "d", " ", "t", "h", "e", " ", "f", "i",
    "l", "e", " ", "b", "a", "c", "k"
  >>
S_AaNlBb == <<"A", "a", "\n", "B", "b">>
S_AaNlNlCc == <<"A", "a", "\n", "\n", "C", "c">>
S_Close == <<"C", "l", "o", "s", "e">>
S_Hello ==
  <<
    "H", "e", "l", "l", "o", ",", " ", "h", "o", "w", " ", "a", "r", "e", " ", "y", "o", "u",
    "?"
  >>
S_Good ==
  <<
    "I", "'", "m", " ", "g", "o", "o", "d", ",", " ", "t", "h", "a", "n", "k", "s", "!"
  >>
S_Menu == <<"M", "e", "n", "u">>
S_Zoom == <<"Z", "o", "o", "m">>
S_Maximize == <<"M", "a", "x", "i", "m", "i", "z", "e">>

DIGITS == <<"0", "1", "2", "3", "4", "5", "6", "7", "8", "9">>
\* The text shown by the node at depth k of a chain: k in three digits.
DepthLabel(k) ==
  <<DIGITS[(k \div 100) + 1], DIGITS[((k \div 10) % 10) + 1], DIGITS[(k % 10) + 1]>>

\* ------------------------------------------------------- accessibility tree

\* An attribute value as Python sees it: a str, None, or some other object.
Str(s) == [kind |-> "str", s |-> s]
PyNone == [kind |-> "none", s |-> <<>>]
PyNum == [kind |-> "num", s |-> <<>>]

\* One UI element.  value: AXValue / GetValuePattern().Value; title: AXTitle /
\* control.Name; desc: AXDescription; children: AXChildren / GetChildren();
\* fail: the accessor that fails on this element ("none" when all answer).
Element(value, title, desc, children, fail) ==
  [value |-> value, title |-> title, desc |-> desc, children |-> children, fail |-> fail]
Leaf(value, title, desc) == Element(value, title, desc, <<>>, "none")
Group(children) == Element(PyNone, PyNone, PyNone, children, "none")

\* The walkers are recursive functions; the model keeps the calls still to be
\* made in a list, next call first.  One call of _walk_tree is one step: it
\* reads the element's own text and puts its children, in order, before the
\* calls that were already waiting.
Calls(children, depth) ==
  IF children = <<>> THEN <<>>
  ELSE [k \in 1..Len(children) |-> [el |-> children[k], depth |-> depth]]

\* ------------------------------------------- macos_support.py: the walker

\* _get_attr: the value when AXUIElementCopyAttributeValue answers with err 0,
\* None when it errs or raises.
MacGetAttr(element, attr) == IF element.fail = attr THEN PyNone ELSE element[attr]

\* _walk_tree: if depth > _MAX_DEPTH: return
MacDepthExceeded_NoCeiling(depth) == FALSE
MacDepthExceeded(depth) == depth > MAX_DEPTH

\* _walk_tree: isinstance(text, str) and len(text) >= 2
MacCandidate(attr) == attr.kind = "str" /\ Len(attr.s) >= 2

\* _walk_tree: text and text.lower() not in _UI_NOISE and text not in seen
MacKeep_NoSeen(text, seen) == text # <<>> /\ StrLower(text) \notin MAC_UI_NOISE
MacKeep(text, seen) ==
  text # <<>> /\ StrLower(text) \notin MAC_UI_NOISE /\ text \notin seen

\* _walk_tree: the body of "for text in (value, title, desc)" for one attribute.
\* acc is the pair of the lines list and the seen set the walk threads through.
MacEmit(acc, attr) ==
  IF MacCandidate(attr)
  THEN LET text == StrStrip(attr.s)
       IN  IF MacKeep(text, acc.seen)
           THEN [lines |-> Append(acc.lines, text), seen |-> acc.seen \cup {text}]
           ELSE acc
  ELSE acc

\* _walk_tree: value, title, desc of one element, in that order.
MacOwnText(element, acc) ==
  MacEmit(MacEmit(MacEmit(acc, MacGetAttr(element, "value")),
                  MacGetAttr(element, "title")),
          MacGetAttr(element, "desc"))

\* _walk_tree: children = _get_attr(element, "AXChildren"); if children: ...
MacChildren_Reversed(element) ==
  IF element.fail = "children" \/ element.children = <<>> THEN <<>>
  ELSE [k \in 1..Len(element.children) |->
          element.children[Len(element.children) - k + 1]]
MacChildren(element) == IF element.fail = "children" THEN <<>> ELSE element.children

\* ----------------------------------------- windows_support.py: the walker

\* _walk_tree: if depth > max_depth: return
WinDepthExceeded(depth, max_depth) == depth > max_depth

\* _walk_tree: the control.Name block.
WinEmitName(acc, name) ==
  IF name.kind = "str" /\ Len(name.s) >= 2
  THEN LET text == StrStrip(name.s)
       IN  IF text # <<>> /\ StrLower(text) \notin WIN_UI_NOISE /\ text \notin acc.seen
           THEN [lines |-> Append(acc.lines, text), seen |-> acc.seen \cup {text}]
           ELSE acc
  ELSE acc

\* _walk_tree: the GetValuePattern().Value block (no deny-list test here).
WinEmitValue_Skipped(acc, value) == acc
WinEmitValue(acc, value) ==
  IF value.kind = "str" /\ Len(value.s) >= 2
  THEN LET text == StrStrip(value.s)
       IN  IF text # <<>> /\ text \notin acc.seen
           THEN [lines |-> Append(acc.lines, text), seen |-> acc.seen \cup {text}]
           ELSE acc
  ELSE acc

\* _walk_tree: the text of one control.  The outer try covers the whole body:
\* a raising control.Name ends the control before its value is looked at; the
\* inner try covers only the value pattern.
WinOwnText(control, acc) ==
  IF control.fail = "title" THEN acc
  ELSE LET a1 == WinEmitName(acc, control.title)
       IN  IF control.fail = "value" THEN a1 ELSE WinEmitValue(a1, control.value)

\* _walk_tree: children = control.GetChildren(), inside the outer try: none are
\* visited when control.Name or GetChildren raised.
WinChildren(control) ==
  IF control.fail \in {"title", "children"} THEN <<>> ELSE control.children

\* _walk_tree: "except Exception: pass" sits inside the call made for the
\* control, so the caller's "for child in children" loop and the calls waiting
\* above it go on after a control that raised.
WinAfterControl_AbortsWalk(control, waiting) ==
  IF control.fail \in {"title", "children"} THEN <<>> ELSE waiting
WinAfterControl(control, waiting) == waiting

\* ------------------------------------------- text_extractor.py: the walker

PIPE == <<" ", "|", " ">>

\* _walk_tree: if depth > _MAX_DEPTH: return
LegacyDepthExceeded(depth) == depth > MAX_DEPTH

\* _walk_tree: text_parts of one element.
LegacyTextParts(element) ==
  LET value == MacGetAttr(element, "value")
      title == MacGetAttr(element, "title")
      desc  == MacGetAttr(element, "desc")
      p1 == IF value.kind = "str" /\ StrStrip(value.s) # <<>>
            THEN <<StrStrip(value.s)>> ELSE <<>>
      p2 == IF title.kind = "str" /\ StrStrip(title.s) # <<>> /\ title # value
            THEN <<StrStrip(title.s)>> ELSE <<>>
      p3 == IF desc.kind = "str" /\ StrStrip(desc.s) # <<>> /\ desc \notin {value, title}
            THEN <<StrStrip(desc.s)>> ELSE <<>>
  IN  p1 \o p2 \o p3

\* _walk_tree: if text_parts: results.append({"role", "text", "depth"}).  The
\* role is stored and never read; the model leaves it out of the dict.
LegacyOwnNode(element, results, depth) ==
  LET parts == LegacyTextParts(element)
  IN  IF parts # <<>>
      THEN Append(results, [text |-> StrJoin(PIPE, parts), depth |-> depth])
      ELSE results

\* format_extracted_text: the three "continue" tests of one node.
LegacyKeep(text, seen) ==
  ~(Len(text) < 2) /\ ~(StrLower(text) \in LEGACY_UI_NOISE) /\ ~(text \in seen)

RECURSIVE LegacyFormatLines(_, _)
\* format_extracted_text: the loop over nodes, giving the lines list.
LegacyFormatLines(nodes, acc) ==
  IF nodes = <<>> THEN acc.lines
  ELSE LET text == Head(nodes).text
           after == IF LegacyKeep(text, acc.seen)
                    THEN [lines |-> Append(acc.lines, text), seen |-> acc.seen \cup {text}]
                    ELSE acc
       IN  IF after = after THEN LegacyFormatLines(Tail(nodes), after) ELSE after.lines

\* ------------------------------------------------------ the three back-ends

Impls == {"macos", "windows", "legacy"}

UiNoise(impl) ==
  CASE impl = "macos"   -> MAC_UI_NOISE
    [] impl = "windows" -> WIN_UI_NOISE
    [] impl = "legacy"  -> LEGACY_UI_NOISE

\* "\n".join(lines)
JoinLines(lines) == StrJoin(<<NL>>, lines)

\* ------------------------------------- base.py: extract_conversation, deep

\* A Python int or None.
PyInt(n) == [kind |-> "int", v |-> n]
NoPid == [kind |-> "none", v |-> 0]

\* if not pid: return "", "Unknown"
PidResolved_NoneOnly(p) == p.kind = "int"
PidResolved(p) == p.kind = "int" /\ p.v # 0

\* if line and line not in seen
MergeKeep_NoSeen(line, seen) == line # <<>>
MergeKeep(line, seen) == line # <<>> /\ line \notin seen

\* seen.add(line); all_lines.append(line)
MergeAdd_Newest(acc, line) == [lines |-> <<line>>, seen |-> acc.seen \cup {line}]
MergeAdd(acc, line) == [lines |-> Append(acc.lines, line), seen |-> acc.seen \cup {line}]

RECURSIVE MergeLines(_, _)
\* for line in text.split("\n"): ...  (pieces is the split text)
MergeLines(acc, pieces) ==
  IF pieces = <<>> THEN acc
  ELSE LET after == IF MergeKeep(Head(pieces), acc.seen)
                    THEN MergeAdd(acc, Head(pieces)) ELSE acc
       IN  IF after = after THEN MergeLines(after, Tail(pieces)) ELSE after

\* if i < 4: self.scroll_up(amount=5)
MoreToScroll_EveryStep(i) == i < SCROLL_COUNT
MoreToScroll_Never(i) == FALSE
MoreToScroll(i) == i < SCROLL_COUNT - 1

\* for _ in range(4): pyautogui.scroll(-5)
RESTORE_COUNT == 4

\* ------------------------------------------------- trees given to a walk

T(s) == Leaf(PyNone, Str(s), PyNone)
V(s) == Leaf(Str(s), PyNone, PyNone)

\* The elements a tree is assembled from: plain text, deny-listed labels in
\* each attribute and letter case, padded and short strings, equal and
\* distinct value/title pairs, a non-string value, an embedded line break,
\* and elements whose accessors fail.
LeafPool ==
  {
    T(S_Aa), T(S_Send), V(S_Send), T(S_PadSEND), T(S_Please), T(S_X), T(S_PadX), T(S_Blank),
    T(S_Zoom), T(S_Maximize), V(S_AaNlBb),
    Leaf(Str(S_Aa), Str(S_Aa), PyNone), Leaf(Str(S_Bb), Str(S_Aa), PyNone),
    Leaf(PyNone, PyNone, Str(S_Cc)), Leaf(PyNum, Str(S_Bb), Str(S_Menu)),
    Element(Str(S_Cc), Str(S_Bb), PyNone, <<>>, "value"),
    Element(Str(S_Cc), Str(S_Bb), PyNone, <<>>, "title")
  }

\* A window with up to MaxChildren elements side by side.
SiblingTrees ==
  {Group(cs) : cs \in UNION {[1..n -> LeafPool] : n \in 0..MaxChildren}}

NestPool == {T(S_Aa), T(S_Bb), T(S_Send), Leaf(Str(S_Bb), Str(S_Aa), PyNone)}

\* a with b nested inside it, followed by a's sibling c.
NestedTrees ==
  {Group(<<Element(a.value, a.title, a.desc, <<b>>, "none"), c>>) :
     a \in NestPool, b \in NestPool, c \in NestPool}

\* The accessors of an element that can fail.
Accessors == {"value", "title", "desc", "children"}

\* An element one of whose accessors fails, with Hello nested inside it,
\* followed by its sibling Aa with Good nested inside.
FailingTrees ==
  {Group(<<Element(Str(S_Cc), Str(S_Bb), PyNone, <<T(S_Hello)>>, f),
           Element(PyNone, Str(S_Aa), PyNone, <<T(S_Good)>>, "none")>>) :
     f \in Accessors}

RECURSIVE Chain(_, _)
\* Nodes nested one inside the other from depth to total, each showing its depth.
Chain(depth, total) ==
  Element(PyNone, Str(DepthLabel(depth)), PyNone,
          IF depth < total THEN <<Chain(depth + 1, total)>> ELSE <<>>, "none")

ChainTrees == {Chain(0, total) : total \in 0..MaxChainDepth}

\* Close, a message, Send, a message, Menu, side by side under the window.
ScenarioTree ==
  Group(<<T(S_Close), T(S_Hello), T(S_Send), T(S_Good), T(S_Menu)>>)

\* What the frontmost application shows: a window with its root element, or
\* no window at all (AXFocusedWindow and AXWindows empty, no focused control).
Open(root) == [open |-> TRUE, root |-> root]
NoWindow == [open |-> FALSE, root |-> Group(<<>>)]

WalkWindows ==
  {Open(t) : t \in SiblingTrees \cup NestedTrees \cup FailingTrees \cup ChainTrees
                   \cup {ScenarioTree}}

\* Aa and Bb side by side.
WindowAB == Group(<<T(S_Aa), T(S_Bb)>>)
\* Bb with Cc nested inside it.
WindowBC == Group(<<Element(PyNone, Str(S_Bb), PyNone, <<T(S_Cc)>>, "none")>>)
\* A message of two paragraphs, and Cc.
WindowNL == Group(<<T(S_AaNlNlCc), T(S_Cc)>>)

\* The windows the screen can show while extract_conversation runs.
ScreenWindows == {Open(WindowAB), Open(WindowBC), Open(WindowNL), Open(ScenarioTree), NoWindow}

Pids == {NoPid, PyInt(0), PyInt(4242)}
AppNames == {"Telegram", "Unknown"}

\* ------------------------------------------------------------------ state

VARIABLES
  impl,        \* the back-end in use
  permitted,   \* what the permission check answers: AXIsProcessTrusted() on
               \* macOS, "uiautomation was imported" on Windows
  window,      \* what the frontmost application shows now
  calls,       \* extract_conversation calls made so far
  pc,          \* where the current call is
  deep,        \* the call's argument
  branch,      \* "deep" or "quick" once "if deep:" was decided, "" before
  pid,         \* local pid
  app_name,    \* local app_name
  i,           \* the scan loop's index
  j,           \* restoring scrolls issued
  all_lines,   \* local all_lines (all_text_parts in text_extractor.py)
  seen_lines,  \* local seen (seen_lines in text_extractor.py)
  text,        \* local text: what the last window read returned
  result,      \* the returned pair (text, app_name)
  stack,       \* the walk in progress: _walk_tree calls still to be made
  lines,       \* the walk's lines list
  seen,        \* the walk's seen set
  nodes,       \* the walk's results list (text_extractor.py)
  steps,       \* _walk_tree calls made by the walk in progress
  events,      \* scroll amounts injected by this call, in order
  reads,       \* what each window read of this call returned, in order
  walks,       \* walks started by this call
  permChecks,  \* permission checks made by this call
  warned,      \* extract_conversation logged the permission warning
  last         \* the call before this one, when both are quick calls and it
               \* returned from a walk: the window it read and the text it gave

extractVars ==
  <<impl, permitted, window, calls, pc, deep, branch, pid, app_name, i, j, all_lines,
    seen_lines, text, result, stack, lines, seen, nodes, steps, events, reads, walks,
    permChecks, warned, last>>

\* ------------------------------------------------- state of AutoReplyApp

\* hotkey requests the model follows
MaxRequests == 3

\* clicks on overlay buttons the model follows
MaxClicks == 2

\* _MIN_TEXT_LENGTH
MIN_TEXT_LENGTH == 30

VARIABLES
  busy,            \* self._busy
  overlay,         \* self.overlay: 0 for None, k for the OverlayWindow made by
                   \* _create_overlay_loading for request k, -1 for the one
                   \* made by _show_overlay_error (its window was never built)
  windows,         \* per request, the Toplevel built for its overlay: whether
                   \* it is on screen, what it shows and whose result that is
  workers,         \* per request, the _process_bg thread: where it is, its
                   \* argument, the text it extracted, the paths it took
  started,         \* requests accepted so far
  clicks,          \* clicks on overlay buttons so far
  tkq,             \* callbacks given to _tk_root.after(0, ...), oldest first
  errorRan,        \* "shown" or "failed" when the handler the main thread ran
                   \* last was _show_overlay_error, by how it ended; else "no"
  source_app,      \* self._source_app
  last_app_name,   \* self._last_app_name
  last_text,       \* self._last_text
  last_screenshot, \* self._last_screenshot
  last_suggestion  \* self._last_suggestion: the request whose reply it is

appVars ==
  <<busy, overlay, windows, workers, started, clicks, tkq, errorRan, source_app, last_app_name,
    last_text, last_screenshot, last_suggestion>>

\* ------------------------------------------------ state of the services

\* the clock's reading when the model starts, and the last reading it follows
StartTime == 1000
MaxTime == 1700

\* fetch_clients: the age below which the cache is served
CACHE_TTL == 300

VARIABLES
  now,           \* what time.time() reads
  cache,         \* ClientAPI._cache
  cache_time,    \* ClientAPI._cache_time
  lastSuccess,   \* when the last successful response was stored, if any
  fetchLog,      \* the last fetch_clients call: its argument, what held
                 \* before it, whether it made a request, how it ended
  shortLog       \* the last shorten_url call: the responses it was given,
                 \* the services it called in order, how it ended

svcVars == <<now, cache, cache_time, lastSuccess, fetchLog, shortLog>>

\* --------------------------------- state of the mail poller and the bot

\* poll_gmail executions and Telegram updates the model follows
MaxPolls == 3
MaxUpdates == 3

\* Gmail message ids; a conversation has the number of its message.
Msgs == {1, 2}

\* The two ways poll_gmail is run: main's direct call, the scheduler's job.
Pollers == {"initial", "scheduled"}

VARIABLES
  unread,        \* messages Gmail lists as unread
  processed,     \* _processed_message_ids
  notified,      \* per message, how often notify_new_email was invoked for it
  pollers,       \* per way of running poll_gmail: where the execution is,
                 \* the messages still to look at, the message in hand
  pollRuns,      \* poll_gmail executions started so far
  loopOwner,     \* the coroutine the event loop is running, "none" when
                 \* every coroutine is suspended at an await
  botData,       \* conversations with an entry in app.bot_data
  suggestion,    \* per conversation, how often its suggestion was regenerated
  status,        \* per conversation, its status in the database
  pending,       \* _pending_edits: per chat id, the conversation or 0
  sendCalls,     \* send_reply calls made so far
  editPresses,   \* Edit presses accepted so far
  editSends,     \* send_reply calls made for a typed reply so far
  handled,       \* updates handled so far
  lastUpdate     \* the update handled last and what held when it came

pollVars == <<unread, processed, notified, pollers, pollRuns, loopOwner>>
botVars ==
  <<botData, suggestion, status, pending, sendCalls, editPresses, editSends, handled,
    lastUpdate>>
mailVars == <<pollVars, botVars>>

vars == <<extractVars, appVars, svcVars, mailVars>>

\* Chat and user ids updates come with: the manager's, and others'.
ManagerId == 42
ChatIds == {ManagerId, 4, -ManagerId}

NotStarted == [pc |-> "not_started", queue |-> <<>>, msg |-> 0]
Suspended == [pc |-> "idle", queue |-> <<>>, msg |-> 0]
NoUpdate ==
  [kind |-> "none", user |-> 0, chat |-> 0, action |-> "", conv |-> 0,
   hadPending |-> FALSE, called |-> FALSE, answer |-> ""]

\* main.py at import, TelegramBot.__init__; bd are the conversations the
\* manager was notified of.
MailIdleWith(bd) ==
  /\ unread = Msgs
  /\ processed = {}
  /\ notified = [m \in Msgs |-> 0]
  /\ pollers = [p \in Pollers |-> NotStarted]
  /\ pollRuns = 0
  /\ loopOwner = "none"
  /\ botData = bd
  /\ suggestion = [c \in Msgs |-> 0]
  /\ status = [c \in Msgs |-> "new"]
  /\ pending = [c \in ChatIds |-> 0]
  /\ sendCalls = 0
  /\ editPresses = 0
  /\ editSends = 0
  /\ handled = 0
  /\ lastUpdate = NoUpdate

MailIdle == MailIdleWith({})

\* A Python list or None.
NoList == [kind |-> "none", v |-> <<>>]
PyList(l) == [kind |-> "list", v |-> l]

NoFetch ==
  [called |-> FALSE, force |-> FALSE, hadSuccess |-> FALSE, age |-> 0, requested |-> FALSE,
   resp |-> [kind |-> "none", clients |-> <<>>], outcome |-> "", value |-> <<>>,
   cacheBefore |-> NoList, timeBefore |-> NoPid, at |-> 0]
NoShorten ==
  [called |-> FALSE, spoo |-> [kind |-> "none", short |-> <<>>],
   tiny |-> [kind |-> "none", text |-> <<>>], services |-> <<>>, outcome |-> "",
   value |-> <<>>]

\* ClientAPI.__init__; no call made yet.
SvcIdle ==
  /\ now = StartTime
  /\ cache = NoList
  /\ cache_time = NoPid
  /\ lastSuccess = NoPid
  /\ fetchLog = NoFetch
  /\ shortLog = NoShorten

Requests == 1..MaxRequests

\* A Python str or None held by the application.
AppNone == [kind |-> "none", s |-> <<>>]
AppStr(s) == [kind |-> "str", s |-> s]

\* A thread that was not started; one that ended (its locals are gone).
NoWorker == [pc |-> "none", deep |-> FALSE, text |-> <<>>, shots |-> 0]
Finished == [pc |-> "finished", deep |-> FALSE, text |-> <<>>, shots |-> 0]
NoToplevel == [shown |-> FALSE, content |-> "none", by |-> 0]

\* AutoReplyApp.__init__
AppIdle ==
  /\ busy = FALSE
  /\ overlay = 0
  /\ windows = [k \in Requests |-> NoToplevel]
  /\ workers = [k \in Requests |-> NoWorker]
  /\ started = 0
  /\ clicks = 0
  /\ tkq = <<>>
  /\ errorRan = "no"
  /\ source_app = AppNone
  /\ last_app_name = AppNone
  /\ last_text = AppNone
  /\ last_screenshot = FALSE
  /\ last_suggestion = 0

NoResult == <<S_Empty, "">>
NoLast == [some |-> FALSE, window |-> NoWindow, text |-> S_Empty]

\* lines = []; seen = set()
EmptyAcc_SeenPersists == [lines |-> <<>>, seen |-> seen]
EmptyAcc == [lines |-> <<>>, seen |-> {}]

\* ------------------------------------------------------------ the actions

Init ==
  /\ impl \in Impls
  /\ permitted \in BOOLEAN
  /\ window \in ScreenWindows
  /\ calls = 0
  /\ pc = "idle"
  /\ deep = FALSE
  /\ branch = ""
  /\ pid = NoPid
  /\ app_name = ""
  /\ i = 0
  /\ j = 0
  /\ all_lines = <<>>
  /\ seen_lines = {}
  /\ text = <<>>
  /\ result = NoResult
  /\ stack = <<>>
  /\ lines = <<>>
  /\ seen = {}
  /\ nodes = <<>>
  /\ steps = 0
  /\ events = <<>>
  /\ reads = <<>>
  /\ walks = 0
  /\ permChecks = 0
  /\ warned = FALSE
  /\ last = NoLast
  /\ AppIdle
  /\ SvcIdle
  /\ MailIdle

\* app.py _process_bg: self.platform.extract_conversation(deep=deep).  The
\* screen may show anything by the time of the call.  The walker's lines and
\* seen are locals the next read creates; nothing is done to them here.
Call ==
  /\ pc \in {"idle", "done", "raised"}
  /\ calls < MaxCalls
  /\ calls' = calls + 1
  /\ deep' \in BOOLEAN
  /\ window' \in ScreenWindows
  /\ pc' = "get_pid"
  /\ branch' = ""
  /\ pid' = NoPid
  /\ app_name' = ""
  /\ i' = 0
  /\ j' = 0
  /\ all_lines' = <<>>
  /\ seen_lines' = {}
  /\ text' = <<>>
  /\ result' = NoResult
  /\ steps' = 0
  /\ events' = <<>>
  /\ reads' = <<>>
  /\ walks' = 0
  /\ permChecks' = 0
  /\ warned' = FALSE
  /\ last' = IF pc = "done" /\ branch = "quick" /\ walks = 1 /\ ~deep'
             THEN [some |-> TRUE, window |-> window, text |-> result[1]]
             ELSE NoLast
  /\ UNCHANGED <<appVars, svcVars, mailVars, impl, permitted, stack, lines, seen, nodes>>

\* pid = self.get_frontmost_app_pid(); if not pid: return "", "Unknown"
GetPid ==
  /\ pc = "get_pid"
  /\ \E p \in Pids :
       /\ pid' = p
       /\ IF PidResolved(p)
          THEN pc' = "get_name" /\ result' = result
          ELSE pc' = "done" /\ result' = <<S_Empty, "Unknown">>
  /\ UNCHANGED <<appVars, svcVars, mailVars, last, impl, permitted, window, calls, deep, branch, app_name, i, j, all_lines,
                 seen_lines, text, stack, lines, seen, nodes, steps, events, reads, walks,
                 permChecks, warned>>

\* app_name = self.get_frontmost_app_name()
GetName ==
  /\ pc = "get_name"
  /\ app_name' \in AppNames
  /\ pc' = "check_perm"
  /\ UNCHANGED <<appVars, svcVars, mailVars, last, impl, permitted, window, calls, deep, branch, pid, i, j, all_lines,
                 seen_lines, text, result, stack, lines, seen, nodes, steps, events, reads,
                 walks, permChecks, warned>>

\* base.py: if not self.check_permissions(): logger.warning(...), then "if deep:".
\* text_extractor.py: if not check_accessibility_permission(): return "", app_name
CheckPermissions ==
  /\ pc = "check_perm"
  /\ permChecks' = permChecks + 1
  /\ IF impl = "legacy" /\ ~permitted
     THEN /\ pc' = "done"
          /\ result' = <<S_Empty, app_name>>
          /\ UNCHANGED <<branch, warned, all_lines, seen_lines>>
     ELSE /\ warned' = ~permitted
          /\ branch' = IF deep THEN "deep" ELSE "quick"
          /\ all_lines' = <<>>
          /\ seen_lines' = {}
          /\ pc' = "read"
          /\ result' = result
  /\ UNCHANGED <<appVars, svcVars, mailVars, last, impl, permitted, window, calls, deep, pid, app_name, i, j, text, stack,
                 lines, seen, nodes, steps, events, reads, walks>>

\* The statements after a window read returned t.  Deep: the union loop's
\* "for line in text.split(...)" and the choice of what comes next; quick: the
\* text is what the call returns.
AfterRead(t) ==
  /\ reads' = Append(reads, t)
  /\ text' = t
  /\ IF branch = "deep"
     THEN LET merged == MergeLines([lines |-> all_lines, seen |-> seen_lines],
                                   StrSplitLines(t))
          IN  /\ all_lines' = merged.lines
              /\ seen_lines' = merged.seen
              /\ IF MoreToScroll(i)
                 THEN pc' = "scroll_up" /\ i' = i
                 ELSE /\ i' = i + 1
                      /\ pc' = IF i + 1 < SCROLL_COUNT THEN "read" ELSE "scroll_down"
     ELSE /\ pc' = "return"
          /\ UNCHANGED <<all_lines, seen_lines, i>>

\* extract_text_from_window / extract_text_from_app: up to the call of
\* _walk_tree.  Without uiautomation (Windows) or without a window the read
\* returns "" and walks nothing.
ReadWindow ==
  /\ pc = "read"
  /\ IF (impl = "windows" /\ ~permitted) \/ ~window.open
     THEN /\ AfterRead(S_Empty)
          /\ UNCHANGED <<stack, lines, seen, nodes, steps, walks>>
     ELSE /\ stack' = <<[el |-> window.root, depth |-> 0]>>
          /\ lines' = EmptyAcc.lines
          /\ seen' = EmptyAcc.seen
          /\ nodes' = <<>>
          /\ steps' = 0
          /\ walks' = walks + 1
          /\ pc' = "walk"
          /\ UNCHANGED <<reads, text, all_lines, seen_lines, i>>
  /\ UNCHANGED <<appVars, svcVars, mailVars, last, impl, permitted, window, calls, deep, branch, pid, app_name, j, result,
                 events, permChecks, warned>>

\* The read raises at the OS boundary.  windows_support.py catches it
\* (logger.error, return ""); macos_support.py and text_extractor.py have no
\* try around it and base.py has none around the read, so it leaves the call.
ReadRaises ==
  /\ pc = "read"
  /\ ~(impl = "windows" /\ ~permitted)
  /\ IF impl = "windows"
     THEN AfterRead(S_Empty)
     ELSE pc' = "raised" /\ UNCHANGED <<reads, text, all_lines, seen_lines, i>>
  /\ UNCHANGED <<appVars, svcVars, mailVars, last, impl, permitted, window, calls, deep, branch, pid, app_name, j, result,
                 stack, lines, seen, nodes, steps, events, walks, permChecks, warned>>

\* One call of _walk_tree: the first waiting call is made.
WalkStep ==
  /\ pc = "walk"
  /\ stack # <<>>
  /\ LET el == Head(stack).el
         depth == Head(stack).depth
         acc == [lines |-> lines, seen |-> seen]
     IN  CASE impl = "macos" ->
                IF MacDepthExceeded(depth)
                THEN stack' = Tail(stack) /\ UNCHANGED <<lines, seen, nodes>>
                ELSE LET after == MacOwnText(el, acc)
                     IN  /\ lines' = after.lines
                         /\ seen' = after.seen
                         /\ stack' = Calls(MacChildren(el), depth + 1) \o Tail(stack)
                         /\ nodes' = nodes
           [] impl = "windows" ->
                IF WinDepthExceeded(depth, WIN_MAX_DEPTH)
                THEN stack' = Tail(stack) /\ UNCHANGED <<lines, seen, nodes>>
                ELSE LET after == WinOwnText(el, acc)
                     IN  /\ lines' = after.lines
                         /\ seen' = after.seen
                         /\ stack' = Calls(WinChildren(el), depth + 1)
                                        \o WinAfterControl(el, Tail(stack))
                         /\ nodes' = nodes
           [] impl = "legacy" ->
                IF LegacyDepthExceeded(depth)
                THEN stack' = Tail(stack) /\ UNCHANGED <<lines, seen, nodes>>
                ELSE /\ nodes' = LegacyOwnNode(el, nodes, depth)
                     /\ stack' = Calls(MacChildren(el), depth + 1) \o Tail(stack)
                     /\ UNCHANGED <<lines, seen>>
  /\ steps' = steps + 1
  /\ UNCHANGED <<appVars, svcVars, mailVars, last, impl, permitted, window, calls, pc, deep, branch, pid, app_name, i, j,
                 all_lines, seen_lines, text, result, events, reads, walks, permChecks,
                 warned>>

\* The walk is over: return "\n".join(lines) (text_extractor.py: the lines
\* format_extracted_text makes of the nodes), and on with the caller.
FinishRead ==
  /\ pc = "walk"
  /\ stack = <<>>
  /\ lines' = IF impl = "legacy" THEN LegacyFormatLines(nodes, EmptyAcc) ELSE lines
  /\ AfterRead(JoinLines(lines'))
  /\ UNCHANGED <<appVars, svcVars, mailVars, last, impl, permitted, window, calls, deep, branch, pid, app_name, j, result,
                 stack, seen, nodes, steps, events, walks, permChecks, warned>>

\* self.scroll_up(amount=5); time.sleep(0.4).  The window shows whatever the
\* application scrolls to.
ScrollUp ==
  /\ pc = "scroll_up"
  /\ events' = Append(events, SCROLL_AMOUNT)
  /\ window' \in ScreenWindows
  /\ i' = i + 1
  /\ pc' = IF i + 1 < SCROLL_COUNT THEN "read" ELSE "scroll_down"
  /\ UNCHANGED <<appVars, svcVars, mailVars, last, impl, permitted, calls, deep, branch, pid, app_name, j, all_lines,
                 seen_lines, text, result, stack, lines, seen, nodes, steps, reads, walks,
                 permChecks, warned>>

\* pyautogui.scroll raises: nothing around it catches, the call ends raising.
ScrollUpRaises ==
  /\ pc = "scroll_up"
  /\ pc' = "raised"
  /\ UNCHANGED <<appVars, svcVars, mailVars, last, impl, permitted, window, calls, deep, branch, pid, app_name, i, j,
                 all_lines, seen_lines, text, result, stack, lines, seen, nodes, steps,
                 events, reads, walks, permChecks, warned>>

\* for _ in range(4): pyautogui.scroll(-5); time.sleep(0.1)
ScrollDown ==
  /\ pc = "scroll_down"
  /\ IF j < RESTORE_COUNT
     THEN events' = Append(events, -SCROLL_AMOUNT) /\ j' = j + 1 /\ pc' = pc
     ELSE pc' = "return" /\ UNCHANGED <<events, j>>
  /\ UNCHANGED <<appVars, svcVars, mailVars, last, impl, permitted, window, calls, deep, branch, pid, app_name, i,
                 all_lines, seen_lines, text, result, stack, lines, seen, nodes, steps,
                 reads, walks, permChecks, warned>>

\* A restoring pyautogui.scroll(-5) raises.
ScrollDownRaises ==
  /\ pc = "scroll_down"
  /\ j < RESTORE_COUNT
  /\ pc' = "raised"
  /\ UNCHANGED <<appVars, svcVars, mailVars, last, impl, permitted, window, calls, deep, branch, pid, app_name, i, j,
                 all_lines, seen_lines, text, result, stack, lines, seen, nodes, steps,
                 events, reads, walks, permChecks, warned>>

\* text = "\n".join(all_lines) when deep; return text, app_name
Return ==
  /\ pc = "return"
  /\ result' = <<IF branch = "deep" THEN JoinLines(all_lines) ELSE text, app_name>>
  /\ pc' = "done"
  /\ UNCHANGED <<appVars, svcVars, mailVars, last, impl, permitted, window, calls, deep, branch, pid, app_name, i, j,
                 all_lines, seen_lines, text, stack, lines, seen, nodes, steps, events,
                 reads, walks, permChecks, warned>>

Next ==
  \/ Call
  \/ GetPid
  \/ GetName
  \/ CheckPermissions
  \/ ReadWindow
  \/ ReadRaises
  \/ WalkStep
  \/ FinishRead
  \/ ScrollUp
  \/ ScrollUpRaises
  \/ ScrollDown
  \/ ScrollDownRaises
  \/ Return

Spec == Init /\ [][Next]_vars

\* ---------------------------------- one quick read of each kind of window

\* A quick call that has resolved the application and is about to read one
\* of the windows of WalkWindows.
InitWalk ==
  /\ impl \in Impls
  /\ permitted = TRUE
  /\ window \in WalkWindows
  /\ calls = 1
  /\ pc = "read"
  /\ deep = FALSE
  /\ branch = "quick"
  /\ pid = PyInt(4242)
  /\ app_name = "Telegram"
  /\ i = 0
  /\ j = 0
  /\ all_lines = <<>>
  /\ seen_lines = {}
  /\ text = <<>>
  /\ result = NoResult
  /\ stack = <<>>
  /\ lines = <<>>
  /\ seen = {}
  /\ nodes = <<>>
  /\ steps = 0
  /\ events = <<>>
  /\ reads = <<>>
  /\ walks = 0
  /\ permChecks = 1
  /\ warned = FALSE
  /\ last = NoLast
  /\ AppIdle
  /\ SvcIdle
  /\ MailIdle

NextWalk ==
  \/ ReadWindow
  \/ WalkStep
  \/ FinishRead
  \/ Return

SpecWalk == InitWalk /\ [][NextWalk]_vars

\* ------------------------------------------- app.py: hotkeys and workers

S_Telegram == <<"T", "e", "l", "e", "g", "r", "a", "m">>

\* A text of n characters.
TextOfLen(n) == [k \in 1..n |-> "a"]

\* What extract_conversation can hand to the worker: a text one character
\* short of the threshold, a text of the threshold's length.
AppTexts == {TextOfLen(MIN_TEXT_LENGTH - 1), TextOfLen(MIN_TEXT_LENGTH)}

\* _process_bg: if len(text) >= _MIN_TEXT_LENGTH
TextSufficient_Longer(t) == Len(t) > MIN_TEXT_LENGTH
TextSufficient(t) == Len(t) >= MIN_TEXT_LENGTH

\* The variables of one extract_conversation call followed step by step; the
\* application's workers are followed by what their call returns.
ExtractionAside ==
  UNCHANGED <<extractVars, svcVars, mailVars>>

\* _on_hotkey, run by the main thread for a hotkey or a tray-menu item.
OnHotkey ==
  /\ \E d \in BOOLEAN :
       IF busy
       THEN UNCHANGED <<busy, workers, started, errorRan>>
       ELSE /\ started < MaxRequests
            /\ busy' = TRUE
            /\ started' = started + 1
            /\ workers' = [workers EXCEPT ![started + 1] =
                             [NoWorker EXCEPT !.pc = "extract", !.deep = d]]
            /\ errorRan' = "no"
  /\ UNCHANGED <<overlay, windows, clicks, tkq, source_app, last_app_name, last_text,
                 last_screenshot, last_suggestion>>
  /\ ExtractionAside

\* _process_bg: extract_conversation returned; self._source_app,
\* self._last_app_name, and _create_overlay_loading handed to the main thread.
ExtractReturns(w) ==
  /\ workers[w].pc = "extract"
  /\ \E t \in AppTexts :
       workers' = [workers EXCEPT ![w].pc = "choose", ![w].text = t]
  /\ source_app' = AppStr(S_Telegram)
  /\ last_app_name' = AppStr(S_Telegram)
  /\ tkq' = Append(tkq, [kind |-> "create", w |-> w])
  /\ UNCHANGED <<busy, overlay, windows, started, clicks, errorRan, last_text, last_screenshot,
                 last_suggestion>>
  /\ ExtractionAside

\* _process_bg: extract_conversation raised; except Exception hands
\* _show_overlay_error to the main thread.
ExtractRaises(w) ==
  /\ workers[w].pc = "extract"
  /\ workers' = [workers EXCEPT ![w] = Finished]
  /\ tkq' = Append(tkq, [kind |-> "error", w |-> w])
  /\ UNCHANGED <<busy, overlay, windows, started, clicks, errorRan, source_app, last_app_name,
                 last_text, last_screenshot, last_suggestion>>
  /\ ExtractionAside

\* _process_bg: the test of len(text) and the first assignment of its branch.
ChoosePath(w) ==
  /\ workers[w].pc = "choose"
  /\ IF TextSufficient(workers[w].text)
     THEN /\ last_text' = AppStr(workers[w].text)
          /\ workers' = [workers EXCEPT ![w].pc = "clear_shot"]
     ELSE /\ last_text' = AppNone
          /\ workers' = [workers EXCEPT ![w].pc = "capture"]
  /\ UNCHANGED <<busy, overlay, windows, started, clicks, tkq, errorRan, source_app,
                 last_app_name, last_screenshot, last_suggestion>>
  /\ ExtractionAside

\* _process_bg, text branch: self._last_screenshot = None
ClearScreenshot(w) ==
  /\ workers[w].pc = "clear_shot"
  /\ last_screenshot' = FALSE
  /\ workers' = [workers EXCEPT ![w].pc = "gen_text"]
  /\ UNCHANGED <<busy, overlay, windows, started, clicks, tkq, errorRan, source_app,
                 last_app_name, last_text, last_suggestion>>
  /\ ExtractionAside

\* _process_bg, else branch: self._last_screenshot = capture_screenshot(...),
\* which returns the path or raises.
Capture(w) ==
  /\ workers[w].pc = "capture"
  /\ \E ok \in BOOLEAN :
       IF ok
       THEN /\ last_screenshot' = TRUE
            /\ workers' = [workers EXCEPT ![w].pc = "gen_image",
                                           ![w].shots = workers[w].shots + 1]
            /\ tkq' = tkq
       ELSE /\ workers' = [workers EXCEPT ![w] = Finished]
            /\ tkq' = Append(tkq, [kind |-> "error", w |-> w])
            /\ last_screenshot' = last_screenshot
  /\ UNCHANGED <<busy, overlay, windows, started, clicks, errorRan, source_app, last_app_name,
                 last_text, last_suggestion>>
  /\ ExtractionAside

\* _process_bg: generate_reply_from_text / generate_reply_from_screenshot
\* returns (self._last_suggestion = reply, _show_overlay_reply handed over) or
\* raises (_show_overlay_error handed over).
Generate(w) ==
  /\ workers[w].pc \in {"gen_text", "gen_image"}
  /\ \E ok \in BOOLEAN :
       /\ workers' = [workers EXCEPT ![w] = Finished]
       /\ tkq' = Append(tkq, [kind |-> IF ok THEN "reply" ELSE "error", w |-> w])
       /\ last_suggestion' = IF ok THEN w ELSE last_suggestion
  /\ UNCHANGED <<busy, overlay, windows, started, clicks, errorRan, source_app, last_app_name,
                 last_text, last_screenshot>>
  /\ ExtractionAside

\* OverlayWindow.show_reply / show_error on self.overlay can be carried out:
\* the overlay's widgets were built (show_loading ran) and not destroyed since.
OverlayUsable(o) == o > 0 /\ windows[o].shown

\* The main thread runs the oldest callback handed to _tk_root.after:
\* _create_overlay_loading, _show_overlay_reply or _show_overlay_error.  An
\* exception in a callback ends that callback only.
RunCallback ==
  /\ tkq # <<>>
  /\ tkq' = Tail(tkq)
  /\ LET cb == Head(tkq)
     IN  CASE cb.kind = "create" ->
                /\ overlay' = cb.w
                /\ windows' = [windows EXCEPT ![cb.w] =
                                 [shown |-> TRUE, content |-> "loading", by |-> cb.w]]
                /\ busy' = busy
                /\ errorRan' = "no"
           [] cb.kind = "reply" ->
                /\ IF overlay # 0 /\ OverlayUsable(overlay)
                   THEN windows' = [windows EXCEPT ![overlay] =
                                      [shown |-> TRUE, content |-> "reply", by |-> cb.w]]
                   ELSE windows' = windows
                /\ UNCHANGED <<overlay, busy>>
                /\ errorRan' = "no"
           [] cb.kind = "error" ->
                IF overlay # 0
                THEN IF OverlayUsable(overlay)
                     THEN /\ windows' = [windows EXCEPT ![overlay] =
                                           [shown |-> TRUE, content |-> "error", by |-> cb.w]]
                          /\ busy' = FALSE
                          /\ overlay' = overlay
                          /\ errorRan' = "shown"
                     ELSE /\ UNCHANGED <<windows, busy, overlay>>
                          /\ errorRan' = "failed"
                ELSE /\ overlay' = -1
                     /\ IF OverlayUsable(-1)
                        THEN busy' = FALSE /\ errorRan' = "shown"
                        ELSE busy' = busy /\ errorRan' = "failed"
                     /\ windows' = windows
  /\ UNCHANGED <<workers, started, clicks, source_app, last_app_name, last_text,
                 last_screenshot, last_suggestion>>
  /\ ExtractionAside

\* The X button or Escape on a window on screen: OverlayWindow._on_close_click
\* (hide, then on_close = _handle_close).
ClickClose(k) ==
  /\ windows[k].shown
  /\ clicks < MaxClicks
  /\ clicks' = clicks + 1
  /\ windows' = [windows EXCEPT ![k] = NoToplevel]
  /\ overlay' = 0
  /\ busy' = FALSE
  /\ errorRan' = "no"
  /\ UNCHANGED <<workers, started, tkq, source_app, last_app_name, last_text,
                 last_screenshot, last_suggestion>>
  /\ ExtractionAside

\* The Paste button on a window on screen: OverlayWindow._on_paste_click
\* (hide, then on_paste = _handle_paste, which changes nothing of the app).
ClickPaste(k) ==
  /\ windows[k].shown
  /\ clicks < MaxClicks
  /\ clicks' = clicks + 1
  /\ windows' = [windows EXCEPT ![k] = NoToplevel]
  /\ errorRan' = "no"
  /\ UNCHANGED <<busy, overlay, workers, started, tkq, source_app, last_app_name,
                 last_text, last_screenshot, last_suggestion>>
  /\ ExtractionAside

\* No extract_conversation call is followed step by step.
ExtractIdle ==
  /\ impl = "macos"
  /\ permitted = TRUE
  /\ window = NoWindow
  /\ calls = 0
  /\ pc = "idle"
  /\ deep = FALSE
  /\ branch = ""
  /\ pid = NoPid
  /\ app_name = ""
  /\ i = 0
  /\ j = 0
  /\ all_lines = <<>>
  /\ seen_lines = {}
  /\ text = <<>>
  /\ result = NoResult
  /\ stack = <<>>
  /\ lines = <<>>
  /\ seen = {}
  /\ nodes = <<>>
  /\ steps = 0
  /\ events = <<>>
  /\ reads = <<>>
  /\ walks = 0
  /\ permChecks = 0
  /\ warned = FALSE
  /\ last = NoLast

\* The application before its first hotkey.
InitApp ==
  /\ AppIdle
  /\ SvcIdle
  /\ MailIdle
  /\ ExtractIdle

NextApp ==
  \/ OnHotkey
  \/ \E w \in Requests : ExtractReturns(w)
  \/ \E w \in Requests : ExtractRaises(w)
  \/ \E w \in Requests : ChoosePath(w)
  \/ \E w \in Requests : ClearScreenshot(w)
  \/ \E w \in Requests : Capture(w)
  \/ \E w \in Requests : Generate(w)
  \/ RunCallback
  \/ \E k \in Requests : ClickClose(k)
  \/ \E k \in Requests : ClickPaste(k)

SpecApp == InitApp /\ [][NextApp]_vars

\* ------------------------------------------ services/client_api.py

\* What the GET of /api/clients/demo can bring: a failure of the request (no
\* connection, timeout, an error status), success=false, or success=true with
\* a list of clients or without the key.
ClientLists == {<<>>, <<"acme">>, <<"acme", "bolt">>}
ApiResponses ==
  {[kind |-> "error", clients |-> <<>>], [kind |-> "success_false", clients |-> <<>>],
   [kind |-> "no_key", clients |-> <<>>]}
  \cup {[kind |-> "ok", clients |-> c] : c \in ClientLists}

\* fetch_clients: time.time() - self._cache_time < 300
CacheFresh_Inclusive(age) == age <= CACHE_TTL
CacheFresh(age) == age < CACHE_TTL

\* fetch_clients: the test that serves the cache.
ServeCache(force_refresh) ==
  /\ ~force_refresh
  /\ cache.kind # "none"
  /\ cache_time.kind = "int" /\ cache_time.v # 0
  /\ CacheFresh(now - cache_time.v)

\* Time passes.
Tick ==
  /\ \E d \in {CACHE_TTL - 1, CACHE_TTL} :
       /\ now + d <= MaxTime
       /\ now' = now + d
  /\ UNCHANGED <<cache, cache_time, lastSuccess, fetchLog, shortLog>>
  /\ UNCHANGED <<extractVars, appVars, mailVars>>

\* ClientAPI.fetch_clients(force_refresh).
FetchClients ==
  /\ \E force_refresh \in BOOLEAN : \E resp \in ApiResponses :
       LET before == [NoFetch EXCEPT
                        !.called = TRUE, !.force = force_refresh,
                        !.hadSuccess = (lastSuccess.kind = "int"),
                        !.age = IF lastSuccess.kind = "int" THEN now - lastSuccess.v ELSE 0,
                        !.cacheBefore = cache, !.timeBefore = cache_time, !.at = now]
       IN  IF ServeCache(force_refresh)
           THEN /\ fetchLog' = [before EXCEPT !.outcome = "returned", !.value = cache.v]
                /\ UNCHANGED <<cache, cache_time, lastSuccess>>
           ELSE /\ IF resp.kind \in {"error", "success_false"}
                   THEN /\ fetchLog' = [before EXCEPT !.requested = TRUE, !.resp = resp,
                                                      !.outcome = "ClientAPIError"]
                        /\ UNCHANGED <<cache, cache_time, lastSuccess>>
                   ELSE /\ cache' = PyList(resp.clients)
                        /\ cache_time' = PyInt(now)
                        /\ lastSuccess' = PyInt(now)
                        /\ fetchLog' = [before EXCEPT !.requested = TRUE, !.resp = resp,
                                                      !.outcome = "returned",
                                                      !.value = resp.clients]
  /\ UNCHANGED <<now, shortLog>>
  /\ UNCHANGED <<extractVars, appVars, mailVars>>

\* ---------------------------------------- services/url_shortener.py

S_Https == <<"h", "t", "t", "p", "s", ":", "/", "/", "s">>
S_Htt == <<"h", "t", "t">>
S_NoScheme == <<"s", "p", "o", "o", ".", "m", "e">>
S_TinyBody == <<"h", "t", "t", "p", ":", "/", "/", "t", NL>>
S_TinyError == <<"E", "r", "r", "o", "r">>
HTTP == <<"h", "t", "t", "p">>

\* What the POST to spoo.me can bring: a failure of the request, a body that
\* is not JSON, or JSON with a short_url string or without one.
SpooResponses ==
  {[kind |-> "error", short |-> <<>>], [kind |-> "not_json", short |-> <<>>],
   [kind |-> "no_key", short |-> <<>>]}
  \cup {[kind |-> "json", short |-> u] : u \in {S_Https, S_Htt, S_NoScheme, S_Empty}}

\* What the GET of tinyurl.com/api-create.php can bring.
TinyResponses ==
  {[kind |-> "error", text |-> <<>>]}
  \cup {[kind |-> "text", text |-> u] : u \in {S_TinyBody, S_TinyError, S_Empty}}

\* str.startswith
StartsWith_Anything(str, prefix) == TRUE
StartsWith(str, prefix) ==
  Len(str) >= Len(prefix) /\ SubSeq(str, 1, Len(prefix)) = prefix

\* shorten_url: short = resp.json().get("short_url", "") of the first try block.
SpooShort(resp) == IF resp.kind = "json" THEN resp.short ELSE S_Empty

\* shorten_url.
ShortenUrl ==
  /\ \E spoo \in SpooResponses : \E tiny \in TinyResponses :
       LET log == [NoShorten EXCEPT !.called = TRUE, !.spoo = spoo, !.tiny = tiny]
       IN  IF spoo.kind \in {"json", "no_key"} /\ StartsWith(SpooShort(spoo), HTTP)
           THEN shortLog' = [log EXCEPT !.services = <<"spoo">>, !.outcome = "returned",
                                         !.value = SpooShort(spoo)]
           ELSE IF tiny.kind = "text" /\ StartsWith(StrStrip(tiny.text), HTTP)
                THEN shortLog' = [log EXCEPT !.services = <<"spoo", "tiny">>,
                                              !.outcome = "returned",
                                              !.value = StrStrip(tiny.text)]
                ELSE shortLog' = [log EXCEPT !.services = <<"spoo", "tiny">>,
                                              !.outcome = "ShortenError"]
  /\ UNCHANGED <<now, cache, cache_time, lastSuccess, fetchLog>>
  /\ UNCHANGED <<extractVars, appVars, mailVars>>

\* The services by themselves: nothing of the application runs.
InitServices == InitApp

NextServices ==
  \/ Tick
  \/ FetchClients
  \/ ShortenUrl

SpecServices == InitServices /\ [][NextServices]_vars

\* -------------------------------------------------- main.py: poll_gmail

\* The first n elements of the set ids, smallest first.
RECURSIVE InOrder(_)
InOrder(ids) ==
  IF ids = {} THEN <<>>
  ELSE LET m == CHOOSE x \in ids : \A y \in ids : x <= y
       IN  <<m>> \o InOrder(ids \ {m})

\* poll_gmail is over, by return or by "except Exception": the coroutine of
\* main's direct call is gone, the scheduler's job waits for its next turn.
PollOver(p) == IF p = "initial" THEN [pc |-> "over", queue |-> <<>>, msg |-> 0] ELSE Suspended

\* if msg_id in _processed_message_ids: continue
AlreadyProcessed(m) == m \in processed

\* poll_gmail begins: main awaits it once, after scheduler.start(); the
\* scheduler starts its job when the interval has passed and no instance of
\* the job runs (max_instances=1), whatever main's own call is doing.
\* new_messages = gmail_service.get_new_messages(max_results=5), which
\* lists the unread messages or raises.
PollStart(p) ==
  /\ loopOwner = "none"
  /\ pollRuns < MaxPolls
  /\ IF p = "initial"
     THEN pollers[p].pc = "not_started"
     ELSE pollers[p].pc \in {"not_started", "idle"} /\ pollers["initial"].pc # "not_started"
  /\ pollRuns' = pollRuns + 1
  /\ \E ok \in BOOLEAN :
       IF ok /\ unread # {}
       THEN /\ pollers' = [pollers EXCEPT ![p] =
                             [pc |-> "next", queue |-> InOrder(unread), msg |-> 0]]
            /\ loopOwner' = p
       ELSE /\ pollers' = [pollers EXCEPT ![p] = PollOver(p)]
            /\ loopOwner' = "none"
  /\ UNCHANGED <<unread, processed, notified, botVars>>
  /\ UNCHANGED <<extractVars, appVars, svcVars>>

\* The loop's body for the next message, up to "await upsert_conversation":
\* the processed test, get_thread and parse_thread_messages (which raise, or
\* give no message, or a last message of ours or of the client), and for a
\* message of ours _processed_message_ids.add and mark_as_read.
PollNext(p) ==
  /\ loopOwner = p
  /\ pollers[p].pc = "next"
  /\ IF pollers[p].queue = <<>>
     THEN /\ pollers' = [pollers EXCEPT ![p] = PollOver(p)]
          /\ loopOwner' = "none"
          /\ UNCHANGED <<unread, processed>>
     ELSE LET m == Head(pollers[p].queue)
              rest == [pollers[p] EXCEPT !.queue = Tail(pollers[p].queue)]
          IN  IF AlreadyProcessed(m)
              THEN /\ pollers' = [pollers EXCEPT ![p] = rest]
                   /\ UNCHANGED <<unread, processed, loopOwner>>
              ELSE \E thread \in {"raises", "empty", "ours", "ours_mark_raises", "client"} :
                     CASE thread = "raises" ->
                            /\ pollers' = [pollers EXCEPT ![p] = PollOver(p)]
                            /\ loopOwner' = "none"
                            /\ UNCHANGED <<unread, processed>>
                       [] thread = "empty" ->
                            /\ pollers' = [pollers EXCEPT ![p] = rest]
                            /\ UNCHANGED <<unread, processed, loopOwner>>
                       [] thread = "ours" ->
                            /\ processed' = processed \cup {m}
                            /\ unread' = unread \ {m}
                            /\ pollers' = [pollers EXCEPT ![p] = rest]
                            /\ loopOwner' = loopOwner
                       [] thread = "ours_mark_raises" ->
                            /\ processed' = processed \cup {m}
                            /\ unread' = unread
                            /\ pollers' = [pollers EXCEPT ![p] = PollOver(p)]
                            /\ loopOwner' = "none"
                       [] thread = "client" ->
                            /\ pollers' = [pollers EXCEPT ![p] =
                                             [pc |-> "db", queue |-> rest.queue, msg |-> m]]
                            /\ loopOwner' = "none"
                            /\ UNCHANGED <<unread, processed>>
  /\ UNCHANGED <<notified, pollRuns, botVars>>
  /\ UNCHANGED <<extractVars, appVars, svcVars>>

\* The awaits of upsert_conversation, add_message, generate_reply and
\* add_message are over: one of them raised, or notify_new_email is invoked,
\* stores the conversation in bot_data and awaits bot.send_message.
Notify(p) ==
  /\ loopOwner = "none"
  /\ pollers[p].pc = "db"
  /\ \E ok \in BOOLEAN :
       IF ok
       THEN /\ notified' = [notified EXCEPT ![pollers[p].msg] = @ + 1]
            /\ botData' = botData \cup {pollers[p].msg}
            /\ pollers' = [pollers EXCEPT ![p].pc = "send"]
       ELSE /\ pollers' = [pollers EXCEPT ![p] = PollOver(p)]
            /\ UNCHANGED <<notified, botData>>
  /\ UNCHANGED <<unread, processed, pollRuns, loopOwner, suggestion, status, pending,
                 sendCalls, editPresses, editSends, handled, lastUpdate>>
  /\ UNCHANGED <<extractVars, appVars, svcVars>>

\* bot.send_message is over.  It raised, or notify_new_email returns and
\* mark_as_read is called, which raises or is followed by
\* _processed_message_ids.add and the next turn of the loop.
AfterNotify(p) ==
  /\ loopOwner = "none"
  /\ pollers[p].pc = "send"
  /\ \E sent \in BOOLEAN : \E marked \in BOOLEAN :
       IF sent /\ marked
       THEN /\ unread' = unread \ {pollers[p].msg}
            /\ processed' = processed \cup {pollers[p].msg}
            /\ pollers' = [pollers EXCEPT ![p].pc = "next", ![p].msg = 0]
            /\ loopOwner' = p
       ELSE /\ pollers' = [pollers EXCEPT ![p] = PollOver(p)]
            /\ UNCHANGED <<unread, processed, loopOwner>>
  /\ UNCHANGED <<notified, pollRuns, botVars>>
  /\ UNCHANGED <<extractVars, appVars, svcVars>>

InitPoll == InitApp

NextPoll ==
  \/ \E p \in Pollers : PollStart(p)
  \/ \E p \in Pollers : PollNext(p)
  \/ \E p \in Pollers : Notify(p)
  \/ \E p \in Pollers : AfterNotify(p)

SpecPoll == InitPoll /\ [][NextPoll]_vars

\* ------------------------------------- services/telegram_bot.py: handlers

\* str() of an int: decimal digits, "-" before a negative number.
Digit(d) == <<"0", "1", "2", "3", "4", "5", "6", "7", "8", "9">>[d + 1]

RECURSIVE NatToStr(_)
NatToStr(n) == IF n < 10 THEN <<Digit(n)>> ELSE NatToStr(n \div 10) \o <<Digit(n % 10)>>

IntToStr(n) == IF n < 0 THEN <<"-">> \o NatToStr(0 - n) ELSE NatToStr(n)

\* TELEGRAM_MANAGER_CHAT_ID, the environment's string.
TELEGRAM_MANAGER_CHAT_ID == IntToStr(ManagerId)

\* _is_manager: str(chat_id) == str(TELEGRAM_MANAGER_CHAT_ID)
IsManager_Anyone(chat_id) == TRUE
IsManager(chat_id) == IntToStr(chat_id) = TELEGRAM_MANAGER_CHAT_ID

\* Users write to the bot in their private chat, whose id is the user's, or
\* in a group, whose id is negative.
Users == {c \in ChatIds : c > 0}
GroupChats == {c \in ChatIds : c < 0}
ChatsOf(u) == {u} \cup GroupChats

\* callback_data of the keyboards the bot sends.
ButtonActions == {"send", "edit", "regen", "skip"}

\* How the calls of a handler end: all return; query.answer() raises; the
\* action's call of Gmail, of the model or of the database raises; the
\* database call after a successful send_reply raises.
Outcomes == {"ok", "answer_raises", "call_raises", "db_raises"}

\* _pending_edits after _handle_text took the entry of chat_id:
\* conv_data = _pending_edits.pop(chat_id) stands before the try.
ConsumeEdit_OnSuccess(chat_id, outcome) ==
  IF outcome = "ok" THEN [pending EXCEPT ![chat_id] = 0] ELSE pending
ConsumeEdit(chat_id, outcome) == [pending EXCEPT ![chat_id] = 0]

\* _handle_callback with _action_send, _action_edit, _action_regen and
\* _action_skip: a press of a keyboard button by user u in the private chat.
HandleCallback(u, action, conv, outcome) ==
  /\ handled < MaxUpdates
  /\ handled' = handled + 1
  /\ LET passed == outcome # "answer_raises" /\ IsManager(u)
         found == passed /\ conv \in botData
         done == found /\ outcome = "ok"
     IN  /\ lastUpdate' =
              [kind |-> "callback", user |-> u, chat |-> u, action |-> action, conv |-> conv,
               hadPending |-> pending[u] # 0,
               called |-> found /\ action = "send",
               answer |-> IF ~passed THEN ""
                          ELSE IF ~found THEN "expired"
                          ELSE IF action = "edit" THEN "editing"
                          ELSE IF done THEN action ELSE "error"]
         /\ sendCalls' = IF found /\ action = "send" THEN sendCalls + 1 ELSE sendCalls
         /\ status' = IF done /\ action = "send" THEN [status EXCEPT ![conv] = "replied"]
                      ELSE IF done /\ action = "skip" THEN [status EXCEPT ![conv] = "skipped"]
                      ELSE status
         /\ pending' = IF found /\ action = "edit" THEN [pending EXCEPT ![u] = conv]
                       ELSE pending
         /\ editPresses' = IF found /\ action = "edit" THEN editPresses + 1 ELSE editPresses
         /\ suggestion' = IF done /\ action = "regen" THEN [suggestion EXCEPT ![conv] = @ + 1]
                          ELSE suggestion
  /\ UNCHANGED <<botData, editSends, pollVars>>
  /\ UNCHANGED <<extractVars, appVars, svcVars>>

\* _handle_text: a text that is no command, written by user u in chat c.
HandleText(u, c, outcome) ==
  /\ handled < MaxUpdates
  /\ handled' = handled + 1
  /\ LET passed == IsManager(c)
         editing == passed /\ pending[c] # 0
         conv == pending[c]
     IN  /\ lastUpdate' =
              [kind |-> "text", user |-> u, chat |-> c, action |-> "", conv |-> conv,
               hadPending |-> pending[c] # 0,
               called |-> editing,
               answer |-> IF ~passed THEN ""
                          ELSE IF ~editing THEN "no_session"
                          ELSE IF outcome = "ok" THEN "sent" ELSE "error"]
         /\ pending' = IF editing THEN ConsumeEdit(c, outcome) ELSE pending
         /\ sendCalls' = IF editing THEN sendCalls + 1 ELSE sendCalls
         /\ editSends' = IF editing THEN editSends + 1 ELSE editSends
         /\ status' = IF editing /\ outcome = "ok" THEN [status EXCEPT ![conv] = "replied"]
                      ELSE status
  /\ UNCHANGED <<botData, suggestion, editPresses, pollVars>>
  /\ UNCHANGED <<extractVars, appVars, svcVars>>

\* The bot with the updater polling; bot_data holds the conversations the
\* manager was notified of since the process started.
InitBot ==
  /\ AppIdle
  /\ SvcIdle
  /\ ExtractIdle
  /\ \E bd \in SUBSET Msgs : MailIdleWith(bd)

NextBot ==
  \/ \E u \in Users : \E action \in ButtonActions : \E conv \in Msgs :
       \E outcome \in Outcomes : HandleCallback(u, action, conv, outcome)
  \/ \E u \in Users : \E c \in ChatsOf(u) :
       \E outcome \in Outcomes \ {"answer_raises"} : HandleText(u, c, outcome)

SpecBot == InitBot /\ [][NextBot]_vars

\* ------------------------------------------------- what the claims speak of

\* The text of the lines Aa, Bb and of Bb, Cc, as a window read returns it.
TextAB == S_Aa \o <<NL>> \o S_Bb
TextBC == S_Bb \o <<NL>> \o S_Cc

\* How often x occurs in seq.
Count(seq, x) == Cardinality({k \in DOMAIN seq : seq[k] = x})

RECURSIVE SumSeq(_)
SumSeq(seq) == IF seq = <<>> THEN 0 ELSE Head(seq) + SumSeq(Tail(seq))

\* s with every element after its first occurrence removed.
FirstOccurrences(s) ==
  LET keep == {k \in DOMAIN s : \A m \in 1..(k - 1) : s[m] # s[k]}
  IN  IF keep = {} THEN <<>>
      ELSE [n \in 1..Cardinality(keep) |->
              s[CHOOSE k \in keep : Cardinality({m \in keep : m <= k}) = n]]

NotBlankLine(line) == line # <<>>

\* The lines of one step: the non-empty lines of the text its read returned.
StepLines(t) == SelectSeq(StrSplitLines(t), NotBlankLine)

RECURSIVE AllStepLines(_)
\* The per-step line lists, one after the other.
AllStepLines(texts) ==
  IF texts = <<>> THEN <<>> ELSE StepLines(Head(texts)) \o AllStepLines(Tail(texts))

IsPrefix(a, b) == Len(a) <= Len(b) /\ SubSeq(b, 1, Len(a)) = a

RECURSIVE PreorderAttrs(_)
RECURSIVE PreorderAttrsOf(_)
\* The attribute values of a tree in pre-order: an element's value, title and
\* description, then its children's, child by child.
PreorderAttrs(el) == <<el.value, el.title, el.desc>> \o PreorderAttrsOf(el.children)
PreorderAttrsOf(children) ==
  IF children = <<>> THEN <<>>
  ELSE PreorderAttrs(Head(children)) \o PreorderAttrsOf(Tail(children))

IsText(attr) == attr.kind = "str" /\ StrStrip(attr.s) # <<>>
NotMacNoise(line) == StrLower(line) \notin MAC_UI_NOISE

\* The trimmed texts of a tree in pre-order, deny-listed labels removed, each once.
PreorderMessages(root) ==
  LET texts == SelectSeq(PreorderAttrs(root), IsText)
      trimmed == IF texts = <<>> THEN <<>>
                 ELSE [k \in 1..Len(texts) |-> StrStrip(texts[k].s)]
  IN  FirstOccurrences(SelectSeq(trimmed, NotMacNoise))

\* The window is one of the chains; its nesting depth.
IsChain(w) == w.open /\ w.root.title = Str(DepthLabel(0))
RECURSIVE ChainDepth(_)
ChainDepth(el) == IF el.children = <<>> THEN 0 ELSE 1 + ChainDepth(el.children[1])

Least(a, b) == IF a <= b THEN a ELSE b

\* A string of a control that is two characters or more once trimmed and is
\* not a deny-listed label of the Windows walker.
WinPlain(attr) ==
  /\ attr.kind = "str"
  /\ Len(StrStrip(attr.s)) >= 2
  /\ StrLower(StrStrip(attr.s)) \notin WIN_UI_NOISE

IsSuffix(a, b) == Len(a) <= Len(b) /\ SubSeq(b, Len(b) - Len(a) + 1, Len(b)) = a

\* The element shows one text, in its title, that no walker drops.
ShowsPlainTitle(el) ==
  /\ el.fail = "none"
  /\ el.value.kind # "str"
  /\ el.desc.kind # "str"
  /\ el.title.kind = "str"
  /\ Len(StrStrip(el.title.s)) >= 2
  /\ StrLower(StrStrip(el.title.s)) \notin MAC_UI_NOISE \cup WIN_UI_NOISE

\* ------------------------------------------------------------- the claims

\* C1: when the frontmost process identifier is None or 0, the call is over at
\* once with ("", "Unknown"), deep or quick, never raising, and without a
\* permission check, a window read, a walk or a scroll gesture.
C1_UnresolvedPidReturnsEmpty ==
  (pc \notin {"idle", "get_pid"} /\ (pid.kind = "none" \/ pid.v = 0)) =>
    /\ pc = "done"
    /\ result = <<S_Empty, "Unknown">>
    /\ permChecks = 0
    /\ walks = 0
    /\ steps = 0
    /\ reads = <<>>
    /\ events = <<>>

C1_Witness ==
  pc = "done" /\ deep /\ pid = PyInt(0) /\ result = <<S_Empty, "Unknown">>

\* C2: a deep scan that returns has issued exactly four scrolls of +5 and four
\* of -5 and nothing else, whatever its reads returned, so the amounts sum to 0.
C2_FourUpFourDown ==
  (pc = "done" /\ branch = "deep") =>
    /\ Count(events, 5) = 4
    /\ Count(events, -5) = 4
    /\ Len(events) = 8
    /\ SumSeq(events) = 0

\* A deep scan that returned, one of whose reads gave no line and another some.
C2_Witness ==
  /\ pc = "done"
  /\ branch = "deep"
  /\ \E k \in DOMAIN reads : reads[k] = S_Empty
  /\ Len(all_lines) >= 3
  /\ Len(events) = 8

\* C3: the text a deep scan returns is the per-step line lists put one after
\* the other, every line after its first occurrence removed, joined by "\n".
C3_TranscriptIsFirstSeenUnion ==
  (pc = "done" /\ branch = "deep") =>
    result[1] = JoinLines(FirstOccurrences(AllStepLines(reads)))

\* Steps showing Aa, Bb and then Bb, Cc give Aa, Bb, Cc.
C3_Witness ==
  /\ pc = "done"
  /\ branch = "deep"
  /\ reads = <<TextAB, TextBC, TextBC, TextAB, TextBC>>
  /\ result[1] = S_Aa \o <<NL>> \o S_Bb \o <<NL>> \o S_Cc

\* C4: the lines list of a walk never holds the same string twice.
C4_WalkLinesAreDistinct ==
  \A a \in DOMAIN lines : \A b \in DOMAIN lines : a # b => lines[a] # lines[b]

\* The walk of a window showing Aa in two elements is over and kept it once.
C4_Witness ==
  /\ pc = "done"
  /\ window = Open(Group(<<T(S_Aa), T(S_Aa)>>))
  /\ lines = <<S_Aa>>

\* C5: a walk drops a string exactly when its lower-cased form is on the
\* deny-list, from whichever attribute it was read: no returned line is
\* deny-listed, and every text of two characters or more that is not
\* deny-listed and shown by an element under the root is returned.
C5_NoiseFilterIsExact ==
  pc = "done" =>
    /\ \A k \in DOMAIN lines : StrLower(lines[k]) \notin UiNoise(impl)
    /\ impl \in {"macos", "windows"} =>
         \A k \in DOMAIN window.root.children :
           LET el == window.root.children[k]
               attrs == IF impl = "macos" THEN {el.value, el.title, el.desc}
                        ELSE {el.title, el.value}
           IN  el.fail = "none" =>
                 \A attr \in attrs :
                   (/\ attr.kind = "str"
                    /\ Len(StrStrip(attr.s)) >= 2
                    /\ StrLower(StrStrip(attr.s)) \notin UiNoise(impl))
                   => \E n \in DOMAIN lines : lines[n] = StrStrip(attr.s)

\* C6: a walk makes no call below depth 41, ends after at most 42 calls on a
\* chain of any depth, and returns from a chain exactly the lines of the
\* elements at depth 0 to 40.
C6_DepthCeiling ==
  /\ \A k \in DOMAIN stack : stack[k].depth <= 41
  /\ IsChain(window) =>
       LET total == ChainDepth(window.root)
       IN  /\ steps <= Least(total, 41) + 1
           /\ pc = "done" =>
                lines = [k \in 1..(Least(total, 40) + 1) |-> DepthLabel(k - 1)]

\* The walk of the deepest chain is over and returned 41 lines.
C6_Witness ==
  /\ pc = "done"
  /\ IsChain(window)
  /\ ChainDepth(window.root) = MaxChainDepth
  /\ Len(lines) = 41
  /\ steps = 42

\* C7: while a deep scan runs, every step leaves the lines gathered so far in
\* place and only appends to them.
C7_TranscriptOnlyGrows ==
  [][(branch = "deep" /\ branch' = "deep") => IsPrefix(all_lines, all_lines')]_vars

\* The second step of a deep scan has added Cc to Aa, Bb.
C7_Witness ==
  /\ branch = "deep"
  /\ reads = <<TextAB, TextBC>>
  /\ all_lines = <<S_Aa, S_Bb, S_Cc>>

\* C8: a quick call that returns has read the window once, walked at most once
\* and scrolled never, and returns what the read gave with the resolved name;
\* on macOS that is the window's texts in pre-order without the deny-listed
\* labels; the window Close, Hello, Send, I'm good, Menu gives the two messages.
C8_QuickIsOnePreorderWalk ==
  (pc = "done" /\ branch = "quick") =>
    /\ Len(reads) = 1
    /\ walks <= 1
    /\ events = <<>>
    /\ result = <<reads[1], app_name>>
    /\ (impl = "macos" /\ window.open) =>
         walks = 1 /\ result[1] = JoinLines(PreorderMessages(window.root))
    /\ (window = Open(ScenarioTree) /\ walks = 1) =>
         result[1] = S_Hello \o <<NL>> \o S_Good

C8_Witness ==
  /\ pc = "done"
  /\ branch = "quick"
  /\ impl = "macos"
  /\ window = Open(ScenarioTree)
  /\ result = <<S_Hello \o <<NL>> \o S_Good, "Telegram">>

\* C9: a call whose permission check answered false, with a process resolved,
\* logs the warning and goes on: it returns only after its one read (quick) or
\* its five reads and eight scrolls (deep), with the resolved name.
C9_DenialDoesNotEndTheCall ==
  (pc = "done" /\ pid = PyInt(4242) /\ ~permitted) =>
    /\ warned
    /\ Len(reads) = (IF deep THEN 5 ELSE 1)
    /\ Len(events) = (IF deep THEN 8 ELSE 0)
    /\ result[2] = app_name

\* C10: a deep scan never ends raising: a scroll or a read that raises costs
\* its step its lines and the scan goes on to return.
C10_StepFailureIsAbsorbed ==
  ~(branch = "deep" /\ pc = "raised")

\* C11: an element whose accessor fails does not end the walk: the walk runs
\* to its end, every later sibling's text is returned, and the failing
\* element's sibling Aa and Good nested in it come last, in that order, after
\* a call was made for the root, both children and the sibling's child.
C11_NodeFailureDoesNotAbortWalk ==
  (pc = "done" /\ window.open /\ walks = 1) =>
    /\ \A k \in DOMAIN window.root.children :
         LET el == window.root.children[k]
         IN  (/\ ShowsPlainTitle(el)
              /\ \E m \in 1..(k - 1) : window.root.children[m].fail # "none")
             => \E n \in DOMAIN lines : lines[n] = StrStrip(el.title.s)
    /\ window.root \in FailingTrees =>
         /\ IsSuffix(<<S_Aa, S_Good>>, lines)
         /\ steps >= 4

\* A Windows walk whose first control raised at control.Name is over: nothing
\* of that control or below it was returned, its sibling's subtree was.
C11_Witness ==
  /\ pc = "done"
  /\ impl = "windows"
  /\ window.root \in FailingTrees
  /\ window.root.children[1].fail = "title"
  /\ lines = <<S_Aa, S_Good>>
  /\ steps = 4

\* C12: in a deep scan a scroll is issued only between walks, the k-th
\* scroll-up only after the k-th read returned and before the next begins, at
\* most four of them, and a scroll-down only after the fifth read returned and
\* the four scroll-ups were issued; a read returns only when as many scroll-ups
\* as earlier reads were issued and no scroll-down.
C12_StrictlySequential ==
  [][(branch = "deep" /\ branch' = "deep") =>
       /\ events' # events =>
            /\ pc # "walk"
            /\ stack = <<>>
            /\ Len(events') = Len(events) + 1
            /\ SubSeq(events', 1, Len(events)) = events
            /\ IF events'[Len(events')] = 5
               THEN /\ Len(reads) = Count(events, 5) + 1
                    /\ Len(reads) <= 4
                    /\ Count(events, -5) = 0
               ELSE /\ events'[Len(events')] = -5
                    /\ Len(reads) = 5
                    /\ Count(events, 5) = 4
       /\ reads' # reads =>
            /\ Len(reads') = Len(reads) + 1
            /\ Len(reads) < 5
            /\ Len(reads) = Count(events, 5)
            /\ Count(events, -5) = 0
    ]_vars

\* Five walks and four scroll-ups are behind, the first scroll-down is issued.
C12_Witness ==
  /\ branch = "deep"
  /\ pc = "scroll_down"
  /\ walks = 5
  /\ Len(reads) = 5
  /\ events = <<5, 5, 5, 5, -5>>

\* C13: no line a walk returns is shorter than two characters once trimmed.
C13_KeptOnlyIfTwoCharsAfterTrim ==
  \A k \in DOMAIN lines : Len(StrStrip(lines[k])) >= 2

\* C14: a quick call that walked the window the quick call before it walked,
\* the window showing the same, returns the text that call returned.
C14_QuickTwiceGivesSameLines ==
  (pc = "done" /\ branch = "quick" /\ walks = 1 /\ last.some /\ last.window = window) =>
    /\ result[1] = last.text
    /\ StepLines(result[1]) = StepLines(last.text)

\* The second quick call on the window Aa, Bb returned Aa, Bb again.
C14_Witness ==
  /\ pc = "done"
  /\ calls = 2
  /\ branch = "quick"
  /\ last = [some |-> TRUE, window |-> Open(WindowAB), text |-> TextAB]
  /\ window = Open(WindowAB)
  /\ result[1] = TextAB

\* C15: the Windows walk returns, of every control under the root, the name
\* (also when the value pattern cannot be obtained) and the value-pattern
\* text; a window of one control gives name then value when they differ and
\* the one string once when they are equal; a control whose value pattern
\* fails still has its name returned and its child visited.
C15_WindowsNameAndValue ==
  (pc = "done" /\ impl = "windows" /\ window.open /\ walks = 1) =>
    /\ \A k \in DOMAIN window.root.children :
         LET el == window.root.children[k]
         IN  /\ (el.fail # "title" /\ WinPlain(el.title))
                  => \E n \in DOMAIN lines : lines[n] = StrStrip(el.title.s)
             /\ (el.fail = "none" /\ WinPlain(el.value))
                  => \E n \in DOMAIN lines : lines[n] = StrStrip(el.value.s)
    /\ Len(window.root.children) = 1 =>
         LET el == window.root.children[1]
         IN  (el.fail = "none" /\ WinPlain(el.title) /\ WinPlain(el.value)) =>
               lines = IF StrStrip(el.title.s) = StrStrip(el.value.s)
                       THEN <<StrStrip(el.title.s)>>
                       ELSE <<StrStrip(el.title.s), StrStrip(el.value.s)>>
    /\ (window.root \in FailingTrees /\ window.root.children[1].fail = "value") =>
         lines = <<S_Bb, S_Hello, S_Aa, S_Good>>

\* The one control named Aa with the value Bb gave Aa, Bb.
C15_Witness ==
  /\ pc = "done"
  /\ impl = "windows"
  /\ window = Open(Group(<<Leaf(Str(S_Bb), Str(S_Aa), PyNone)>>))
  /\ lines = <<S_Aa, S_Bb>>

\* C16: a worker whose extraction returned is on the text path exactly when
\* the text has 30 characters or more and on the image path otherwise, quick
\* or deep; it takes a screenshot on the image path only, and once.
C16_PathByTextLength ==
  \A w \in Requests :
    LET wk == workers[w]
    IN  wk.pc \in {"clear_shot", "gen_text", "capture", "gen_image"} =>
          /\ (wk.pc \in {"clear_shot", "gen_text"}) <=> (Len(wk.text) >= 30)
          /\ (wk.pc \in {"capture", "gen_image"}) <=> (Len(wk.text) < 30)
          /\ wk.shots = (IF wk.pc = "gen_image" THEN 1 ELSE 0)

\* A deep request with 29 characters is about to ask for a reply from the
\* screenshot while a quick one with 30 is about to ask for one from the text.
C16_Witness ==
  \E w \in Requests : \E v \in Requests :
    /\ workers[w].deep
    /\ workers[w].pc = "gen_image"
    /\ Len(workers[w].text) = 29
    /\ ~workers[v].deep
    /\ workers[v].pc = "gen_text"
    /\ Len(workers[v].text) = 30

\* C17: at no time are two workers inside extract_conversation.
C17_OneExtractionInFlight ==
  Cardinality({w \in Requests : workers[w].pc = "extract"}) <= 1

\* C18: when the main thread has run _show_overlay_error, the error is on
\* screen in the overlay and _busy is False.
C18_ErrorShownAndBusyCleared ==
  errorRan # "no" =>
    /\ errorRan = "shown"
    /\ ~busy
    /\ overlay > 0
    /\ windows[overlay].shown
    /\ windows[overlay].content = "error"

\* C19: fetch_clients makes a request exactly when it is forced, no
\* successful response was stored before, or the last one was stored 300
\* seconds ago or more; otherwise it returns the cached list and changes
\* nothing; a failed request or success=false raises ClientAPIError and leaves
\* the cache and its timestamp as they were; a successful response replaces
\* both and is returned.
C19_CacheServedWhileFresh ==
  fetchLog.called =>
    /\ fetchLog.requested <=>
         (fetchLog.force \/ ~fetchLog.hadSuccess \/ fetchLog.age >= 300)
    /\ ~fetchLog.requested =>
         /\ fetchLog.outcome = "returned"
         /\ fetchLog.cacheBefore = PyList(fetchLog.value)
         /\ cache = fetchLog.cacheBefore
         /\ cache_time = fetchLog.timeBefore
    /\ (fetchLog.requested /\ fetchLog.resp.kind \in {"error", "success_false"}) =>
         /\ fetchLog.outcome = "ClientAPIError"
         /\ cache = fetchLog.cacheBefore
         /\ cache_time = fetchLog.timeBefore
    /\ (fetchLog.requested /\ fetchLog.resp.kind \in {"ok", "no_key"}) =>
         /\ fetchLog.outcome = "returned"
         /\ fetchLog.value = fetchLog.resp.clients
         /\ cache = PyList(fetchLog.resp.clients)
         /\ cache_time = PyInt(fetchLog.at)

\* A call 299 seconds after an empty list was stored returned it without a
\* request.
C19_Witness ==
  /\ fetchLog.called
  /\ ~fetchLog.force
  /\ fetchLog.age = 299
  /\ ~fetchLog.requested
  /\ fetchLog.value = <<>>
  /\ cache = PyList(<<>>)

\* C20: shorten_url calls spoo.me first and TinyURL exactly when spoo.me
\* failed or gave a value that does not begin with "http"; it returns the
\* first of the two results that begins with "http" and raises ShortenError
\* exactly when neither does.
C20_SpooThenTinyUrl ==
  shortLog.called =>
    LET begins(u) == Len(u) >= 4 /\ u[1] = "h" /\ u[2] = "t" /\ u[3] = "t" /\ u[4] = "p"
        spooGood == shortLog.spoo.kind = "json" /\ begins(shortLog.spoo.short)
        tinyGood == shortLog.tiny.kind = "text" /\ begins(StrStrip(shortLog.tiny.text))
    IN  /\ shortLog.services \in {<<"spoo">>, <<"spoo", "tiny">>}
        /\ (shortLog.services = <<"spoo", "tiny">>) <=> ~spooGood
        /\ spooGood => shortLog.outcome = "returned" /\ shortLog.value = shortLog.spoo.short
        /\ (~spooGood /\ tinyGood) =>
             shortLog.outcome = "returned" /\ shortLog.value = StrStrip(shortLog.tiny.text)
        /\ (shortLog.outcome = "ShortenError") <=> (~spooGood /\ ~tinyGood)

\* spoo.me answered with a value without scheme and TinyURL's link was returned.
C20_Witness ==
  /\ shortLog.called
  /\ shortLog.spoo = [kind |-> "json", short |-> S_NoScheme]
  /\ shortLog.services = <<"spoo", "tiny">>
  /\ shortLog.outcome = "returned"
  /\ shortLog.value = <<"h", "t", "t", "p", ":", "/", "/", "t">>

\* C21: notify_new_email is invoked at most once for a Gmail message id.
C21_NotifiedAtMostOnce ==
  \A m \in Msgs : notified[m] <= 1

\* What the handlers of the bot can change besides their own bookkeeping:
\* bot_data, the suggestions, the statuses, _pending_edits, the replies sent.
BotEffects == <<botData, suggestion, status, pending, sendCalls, editPresses, editSends>>

\* C22: an update whose user id or chat id is not the configured manager id
\* calls no send_reply, changes no status, regenerates nothing and adds no
\* pending edit: the bot's and the database's state stay as they were.
C22_NonManagerChangesNothing ==
  [][(handled' # handled /\ (lastUpdate'.user # ManagerId \/ lastUpdate'.chat # ManagerId))
       => UNCHANGED BotEffects]_vars

\* C22's case: with an edit pending for the manager, a text arrives in a
\* chat that is not the manager's, or a button is pressed by another user
\* on a conversation the bot holds.
C22_Witness ==
  /\ pending[ManagerId] # 0
  /\ lastUpdate.kind \in {"text", "callback"}
  /\ lastUpdate.chat # ManagerId
  /\ lastUpdate.kind = "callback" => lastUpdate.conv \in botData

\* C23: a text from the manager calls send_reply only if an edit was pending
\* for the chat; the pending edit is gone after the text whether the send
\* succeeded or not; typed replies never outnumber Edit presses; and a text
\* with no edit pending gets the no-active-edit-session answer and sends
\* nothing.
C23_EditConsumedByOneText ==
  /\ editSends <= editPresses
  /\ (lastUpdate.kind = "text" /\ lastUpdate.chat = ManagerId) =>
       /\ lastUpdate.called => lastUpdate.hadPending
       /\ pending[lastUpdate.chat] = 0
       /\ ~lastUpdate.hadPending => (lastUpdate.answer = "no_session" /\ ~lastUpdate.called)

\* C23's case: the manager pressed Edit and typed a reply whose send failed.
C23_Witness ==
  /\ lastUpdate.kind = "text"
  /\ lastUpdate.chat = ManagerId
  /\ lastUpdate.hadPending
  /\ lastUpdate.answer = "error"
  /\ editSends = 1
  /\ pending[ManagerId] = 0

\* C24: when an overlay that shows a reply leaves the screen (Close, Escape
\* or Paste), _busy is False, so that the next hotkey starts an extraction.
C24_DismissalClearsBusy ==
  [][\A k \in Requests :
       (windows[k].shown /\ windows[k].content = "reply" /\ ~windows'[k].shown) => ~busy']_vars

\* C25: whenever a reply or an error is written into an overlay, it was
\* produced by the request started last; no earlier request's worker writes
\* into the overlay of a later request.
C25_ResultOfLatestRequest ==
  [][\A k \in Requests :
       (windows'[k] # windows[k] /\ windows'[k].content \in {"reply", "error"})
         => windows'[k].by = started]_vars

\* C26: _last_text and _last_screenshot are never both set, whichever way the
\* workers interleave; looked at whenever no worker stands between the two
\* assignments of its branch.
C26_OneModeRecorded ==
  (\A w \in Requests : workers[w].pc \notin {"clear_shot", "capture"})
    => ~(last_text.kind = "str" /\ last_screenshot)

\* C27: a deep scan whose five reads all found what a single read finds (the
\* window shows the same at every scroll position) returns that single
\* read's text, the text a quick call returns.
C27_DeepEqualsQuickWhenStatic ==
  (pc = "done" /\ branch = "deep" /\ Len(reads) = SCROLL_COUNT
     /\ \A k \in DOMAIN reads : reads[k] = reads[1])
    => result[1] = reads[1]

====
